---- MODULE Spec2Model ----
(***************************************************************************)
(* xdsc: the navigation and caching core of the Gtk discuss client.        *)
(*                                                                         *)
(* DiscussWrapper (src/xdsc.py 41-157) and the handlers of Xdsc            *)
(* (src/xdsc.py 190-1044) are modelled as a state machine.  The discuss    *)
(* library (RCFile, Client, Meeting) and the remote server are the         *)
(* environment: they are modelled from the interface the client consumes.  *)
(*                                                                         *)
(* Two specifications share the variables:                                 *)
(*   Spec     the application: start-up scan, the handlers, the remote     *)
(*            changing under the client;                                   *)
(*   SpecNav  DiscussWrapper.get_transaction and                           *)
(*            find_next_valid_transaction applied to every meeting shape   *)
(*            and cursor within the bounds.                                *)
(***************************************************************************)
EXTENDS Integers, Sequences, FiniteSets, TLC

\* ------------------------------------------------------------------ bounds

\* Highest transaction number a meeting holds in an initial state.
MaxTrn == 4

\* How many transactions the remote may gain (posts) in one behaviour.
MaxPosts == 1

\* How many transactions the remote may lose (deletions) in one behaviour.
MaxDeletes == 2

\* How many discuss.Client objects per host the model counts before it stops
\* letting add_meeting run.
MaxClients == 2

\* ------------------------------------------------------------- the universe

\* Meeting locations (host, path); the path alone identifies one here.
Locs == {"a", "b", "c"}

HostOf(loc) == CASE loc = "a" -> "h1" [] loc = "b" -> "h2" [] OTHER -> "h1"

Hosts == {HostOf(l) : l \in Locs}

ShortName(loc) == CASE loc = "a" -> "sa" [] loc = "b" -> "sb" [] OTHER -> "sc"

\* The location lookup() answers when nothing resolves (Python's None).
NoLoc == "none"

\* The transaction that is no transaction (Python's None).
NoTrn == [meeting |-> NoLoc, current |-> 0, prev |-> 0, next |-> 0,
          pref |-> 0, nref |-> 0, fref |-> 0, lref |-> 0]

\* The Meeting that is no Meeting (an empty meeting cache slot).
NoMtg == [id |-> NoLoc, lowest |-> 0, highest |-> 0, first |-> 0, last |-> 0,
          long_name |-> "", short_name |-> ""]

Max(S) == CHOOSE x \in S : \A y \in S : y <= x
Min(S) == CHOOSE x \in S : \A y \in S : x <= y
MaxOr0(S) == IF S = {} THEN 0 ELSE Max(S)
MinOr0(S) == IF S = {} THEN 0 ELSE Min(S)

VARIABLES
    remote,              \* the server: per location, the meeting as it is now
    rstatus,             \* the server: per location, how attending/probing answers
    entries,             \* rcfile.entries: location -> registry entry
    saved,               \* the .meetings file as last written by rcfile.save()
    meetingcache,        \* DiscussWrapper.meetingcache: location -> Meeting
    connectioncache,     \* DiscussWrapper.connectioncache: hosts holding a Client
    clients,             \* per host, how many discuss.Client were constructed
    current_meeting,     \* Xdsc.current_meeting (a location, the cached object)
    current_transaction, \* Xdsc.current_transaction
    trans_liststore,     \* Xdsc.trans_liststore: the transaction window
    meeting_liststore,   \* Xdsc.meeting_liststore: rows (bold, mtg)
    mode,                \* which model upper_treeview shows
    sensitive,           \* which buttons can be clicked (set_sensitive)
    phase,               \* "start", "running" or "quit"
    loader,              \* the window loaders under way, innermost last
    op                   \* the operation that ran last, its inputs and outcome

vars == <<remote, rstatus, entries, saved, meetingcache, connectioncache,
          clients, current_meeting, current_transaction, trans_liststore,
          meeting_liststore, mode, sensitive, phase, loader, op>>

uiVars == <<current_meeting, current_transaction, trans_liststore,
            meeting_liststore, mode, sensitive, phase, loader>>
connVars == <<meetingcache, connectioncache, clients>>

\* No operation has run since the server last moved.
NoOp == [name |-> "none"]

\* ------------------------------------------------- the remote (environment)

\* The thread a transaction belongs to when the meeting is created.
InitThread(n) == IF n % 2 = 0 THEN 2 ELSE 1

\* Every meeting the server may hold initially: lowest..highest within
\* 1..MaxTrn, at least one live transaction.
RemoteShapes(name) ==
    { [lowest |-> lo, highest |-> hi, live |-> lv, long_name |-> name,
       thread |-> [n \in 1..hi |-> InitThread(n)], grown |-> 0, gone |-> 0] :
          lo \in 1..MaxTrn, hi \in 1..MaxTrn, lv \in SUBSET (1..MaxTrn) }

ValidShape(r) ==
    /\ r.lowest <= r.highest
    /\ r.live # {}
    /\ r.live \subseteq r.lowest..r.highest

\* The transaction numbered n of remote meeting r, with its pointers into the
\* live sequence and into its reply chain.
TrnOf(loc, r, n) ==
    LET chain == {k \in r.live : r.thread[k] = r.thread[n]} IN
    [meeting |-> loc, current |-> n,
     prev |-> MaxOr0({k \in r.live : k < n}),
     next |-> MinOr0({k \in r.live : k > n}),
     pref |-> MaxOr0({k \in chain : k < n}),
     nref |-> MinOr0({k \in chain : k > n}),
     fref |-> Min(chain), lref |-> Max(chain)]

\* discuss.Meeting.get_transaction: a Transaction, or DELETED_TRN for a slot
\* inside lowest..highest that is not live, or NO_SUCH_TRN.
Fetch(loc, n) ==
    LET r == remote[loc] IN
    IF n \in r.live THEN [kind |-> "ok", trn |-> TrnOf(loc, r, n)]
    ELSE IF n >= r.lowest /\ n <= r.highest
         THEN [kind |-> "DELETED_TRN", trn |-> NoTrn]
         ELSE [kind |-> "NO_SUCH_TRN", trn |-> NoTrn]

\* The metadata of remote meeting r.
MetaOf(loc, r) ==
    [id |-> loc, lowest |-> r.lowest, highest |-> r.highest,
     first |-> Min(r.live), last |-> Max(r.live),
     long_name |-> r.long_name, short_name |-> ShortName(loc)]

\* discuss.Meeting.load_info: the metadata of the meeting as it is now.
LoadInfo(loc) == MetaOf(loc, remote[loc])

\* The server deletes a live transaction (never the only one).
RemoteDelete(loc, n) ==
    /\ n \in remote[loc].live
    /\ Cardinality(remote[loc].live) > 1
    /\ remote[loc].gone < MaxDeletes
    /\ remote' = [remote EXCEPT ![loc].live = @ \ {n}, ![loc].gone = @ + 1]

\* Somebody else posts: the server appends highest + 1, in a thread of its own.
RemotePost(loc) ==
    LET r == remote[loc]
        n == r.highest + 1 IN
    /\ r.grown < MaxPosts
    /\ remote' = [remote EXCEPT ![loc].highest = n,
                                ![loc].grown = @ + 1,
                                ![loc].live = @ \cup {n},
                                ![loc].thread = [k \in 1..n |->
                                    IF k = n THEN n ELSE r.thread[k]]]

\* ------------------------------------------------ the registry (discuss.RCFile)

\* rcfile.lookup: a location resolves to itself, a long or short name to the
\* entry that carries it, anything else to None.
Lookup(ents, name) ==
    IF name \in DOMAIN ents THEN name
    ELSE IF \E m \in DOMAIN ents : name \in {ents[m].names[i] : i \in 1..Len(ents[m].names)}
         THEN CHOOSE m \in DOMAIN ents :
                  name \in {ents[m].names[i] : i \in 1..Len(ents[m].names)}
         ELSE NoLoc

\* rcfile.touch: set last_transaction of that location's entry.
Touch(ents, loc, num) ==
    IF loc \in DOMAIN ents
    THEN [ents EXCEPT ![loc].last_transaction = num]
    ELSE ents

\* ------------------------------------------------------------ DiscussWrapper

\* _last_read_transaction: lookup by long name, then entries[lookup], which
\* raises KeyError when the lookup answered None.
last_read_transaction(ents, mtg) ==
    LET lookup == Lookup(ents, mtg.long_name) IN
    IF lookup \in DOMAIN ents
    THEN [kind |-> "ok", val |-> ents[lookup].last_transaction]
    ELSE [kind |-> "KeyError", val |-> 0]

\* What touch_meeting would be if the cursor only ever moved forward.
touch_meeting_monotonic(ents, mtg, trn) ==
    IF mtg.id \in DOMAIN ents /\ ents[mtg.id].last_transaction > trn.current
    THEN ents
    ELSE Touch(ents, mtg.id, trn.current)

\* touch_meeting: rcfile.touch(meeting_obj.id, trn_obj.current).
touch_meeting(ents, mtg, trn) == Touch(ents, mtg.id, trn.current)

\* What get_transaction would be with the bounds of the live range.
get_transaction_firstlast(ents, mtg, trn_num, updateLast) ==
    IF trn_num < mtg.first \/ trn_num > mtg.last
    THEN [kind |-> "ValueError", trn |-> NoTrn, ents |-> ents, fetched |-> <<>>]
    ELSE LET f == Fetch(mtg.id, trn_num) IN
         [kind |-> f.kind, trn |-> f.trn,
          ents |-> IF f.kind = "ok" /\ updateLast
                   THEN touch_meeting(ents, mtg, f.trn) ELSE ents,
          fetched |-> <<trn_num>>]

\* What get_transaction would be if it fetched the number after the one asked.
get_transaction_offbyone(ents, mtg, trn_num, updateLast) ==
    IF trn_num < mtg.lowest \/ trn_num > mtg.highest
    THEN [kind |-> "ValueError", trn |-> NoTrn, ents |-> ents, fetched |-> <<>>]
    ELSE LET f == Fetch(mtg.id, trn_num + 1) IN
         [kind |-> f.kind, trn |-> f.trn,
          ents |-> IF f.kind = "ok" /\ updateLast
                   THEN touch_meeting(ents, mtg, f.trn) ELSE ents,
          fetched |-> <<trn_num + 1>>]

\* What get_transaction would be if it recorded the view before fetching.
get_transaction_touchfirst(ents, mtg, trn_num, updateLast) ==
    LET e == IF updateLast THEN Touch(ents, mtg.id, trn_num) ELSE ents IN
    IF trn_num < mtg.lowest \/ trn_num > mtg.highest
    THEN [kind |-> "ValueError", trn |-> NoTrn, ents |-> e, fetched |-> <<>>]
    ELSE LET f == Fetch(mtg.id, trn_num) IN
         [kind |-> f.kind, trn |-> f.trn, ents |-> e, fetched |-> <<trn_num>>]

\* get_transaction: ValueError outside lowest..highest, otherwise one remote
\* fetch; a fetched transaction is recorded as read when updateLast.
get_transaction(ents, mtg, trn_num, updateLast) ==
    IF trn_num < mtg.lowest \/ trn_num > mtg.highest
    THEN [kind |-> "ValueError", trn |-> NoTrn, ents |-> ents, fetched |-> <<>>]
    ELSE LET f == Fetch(mtg.id, trn_num) IN
         [kind |-> f.kind, trn |-> f.trn,
          ents |-> IF f.kind = "ok" /\ updateLast
                   THEN touch_meeting(ents, mtg, f.trn) ELSE ents,
          fetched |-> <<trn_num>>]

\* What the loop would be if it fetched without recording the view.
RECURSIVE Walk_notouch(_, _, _, _, _, _, _)
Walk_notouch(ents, mtg, t, end, inc, fetched, skipped) ==
    IF (inc > 0 /\ t > end) \/ (inc < 0 /\ t < end)
    THEN [kind |-> "None", trn |-> NoTrn, ents |-> ents,
          fetched |-> fetched, skipped |-> skipped]
    ELSE LET g == get_transaction(ents, mtg, t, FALSE) IN
         IF g.kind = "ok"
         THEN [kind |-> "ok", trn |-> g.trn, ents |-> g.ents,
               fetched |-> fetched \o g.fetched, skipped |-> skipped]
         ELSE IF g.kind \in {"DELETED_TRN", "NO_SUCH_TRN"}
         THEN Walk_notouch(ents, mtg, t + inc, end, inc,
                           fetched \o g.fetched, Append(skipped, t))
         ELSE [kind |-> g.kind, trn |-> NoTrn, ents |-> ents,
               fetched |-> fetched \o g.fetched, skipped |-> skipped]

\* The loop of find_next_valid_transaction from t to end in steps of inc:
\* the first fetched transaction is returned, DELETED_TRN and NO_SUCH_TRN are
\* skipped, anything else is raised; None when the range is exhausted.
RECURSIVE Walk(_, _, _, _, _, _, _)
Walk(ents, mtg, t, end, inc, fetched, skipped) ==
    IF (inc > 0 /\ t > end) \/ (inc < 0 /\ t < end)
    THEN [kind |-> "None", trn |-> NoTrn, ents |-> ents,
          fetched |-> fetched, skipped |-> skipped]
    ELSE LET g == get_transaction(ents, mtg, t, TRUE) IN
         IF g.kind = "ok"
         THEN [kind |-> "ok", trn |-> g.trn, ents |-> g.ents,
               fetched |-> fetched \o g.fetched, skipped |-> skipped]
         ELSE IF g.kind \in {"DELETED_TRN", "NO_SUCH_TRN"}
         THEN Walk(ents, mtg, t + inc, end, inc,
                   fetched \o g.fetched, Append(skipped, t))
         ELSE [kind |-> g.kind, trn |-> NoTrn, ents |-> ents,
               fetched |-> fetched \o g.fetched, skipped |-> skipped]

\* What find_next_valid_transaction would be if the walk began at the cursor
\* itself instead of one step past it.
find_next_valid_transaction_fromcursor(ents, mtg, backwards) ==
    LET lr == last_read_transaction(ents, mtg)
        start_from == lr.val
        end == IF backwards THEN mtg.first ELSE mtg.last
        increment == IF backwards THEN -1 ELSE 1
        raised(k) == [kind |-> k, trn |-> NoTrn, ents |-> ents,
                      fetched |-> <<>>, skipped |-> <<>>,
                      start_from |-> start_from]
    IN  IF lr.kind # "ok" THEN raised(lr.kind)
        ELSE IF ~backwards /\ start_from >= mtg.last THEN raised("AttributeError")
        ELSE IF backwards /\ start_from <= mtg.first THEN raised("AttributeError")
        ELSE [start_from |-> start_from] @@
             Walk(ents, mtg, start_from, end, increment, <<>>, <<>>)

\* find_next_valid_transaction.  At or beyond the boundary the code calls
\* self.go_to_transaction, which DiscussWrapper does not define: the call
\* raises AttributeError.
find_next_valid_transaction(ents, mtg, backwards) ==
    LET lr == last_read_transaction(ents, mtg)
        start_from == lr.val
        end == IF backwards THEN mtg.first ELSE mtg.last
        increment == IF backwards THEN -1 ELSE 1
        raised(k) == [kind |-> k, trn |-> NoTrn, ents |-> ents,
                      fetched |-> <<>>, skipped |-> <<>>,
                      start_from |-> start_from]
    IN  IF lr.kind # "ok" THEN raised(lr.kind)
        ELSE IF ~backwards /\ start_from >= mtg.last THEN raised("AttributeError")
        ELSE IF backwards /\ start_from <= mtg.first THEN raised("AttributeError")
        ELSE [start_from |-> start_from] @@
             Walk(ents, mtg, start_from + increment, end, increment, <<>>, <<>>)

\* ------------------------------------------ the application: one handler run

\* socket.timeout, discuss.rpc.ProtocolError and the codes of
\* discuss.client.DiscussError are told apart by name.
IsDiscussError(k) == k \in {"NO_SUCH_MTG", "DELETED_TRN", "NO_SUCH_TRN"}
IsRemoteError(k) == IsDiscussError(k) \/ k \in {"timeout", "ProtocolError"}

\* The state a handler works on: the client's variables, the exception that
\* left the handler (exc, "" when none), the exception a nested signal handler
\* ended with (nested), the remote calls made (calls), the meetings a scan
\* attended (visited), whether a transaction was displayed (displayed) and the
\* last touch made (touched), the remaining counts reported to the status
\* label (progress).
NoTouch == [loc |-> NoLoc, num |-> 0]

\* Button sensitivity: nav stands for the buttons update_meeting_list
\* switches together (next, prev, goto, enter, mode_transactions, ...).
AllInsensitive == [nav |-> FALSE, next_chain |-> FALSE, prev_chain |-> FALSE]

Begin ==
    [entries |-> entries, saved |-> saved, meetingcache |-> meetingcache,
     connectioncache |-> connectioncache, clients |-> clients,
     current_meeting |-> current_meeting,
     current_transaction |-> current_transaction,
     trans_liststore |-> trans_liststore,
     meeting_liststore |-> meeting_liststore, mode |-> mode,
     sensitive |-> sensitive,
     exc |-> "", nested |-> "", calls |-> {}, visited |-> {},
     displayed |-> FALSE, touched |-> NoTouch, progress |-> <<>>]

\* F applied to the value of v.
Let(v, F(_)) == CHOOSE r \in {F(x) : x \in {v}} : TRUE

Raise(s, k) == [s EXCEPT !.exc = k]
Call(s, c, loc) == [s EXCEPT !.calls = @ \cup {<<c, loc>>}]
Then(s, F(_)) == Let(s, LAMBDA t : IF t.exc # "" THEN t ELSE F(t))

\* rcfile.save(): the file now holds the entries.
Save(s) == [s EXCEPT !.saved = s.entries]

\* _get_connection: one discuss.Client per host, constructed on first use.
get_connection(s, host) ==
    IF host \in s.connectioncache THEN s
    ELSE [s EXCEPT !.connectioncache = @ \cup {host},
                   !.clients[host] = @ + 1]

\* How the server of a meeting answers.  The states of rstatus: "ok";
\* "timeout", "ProtocolError" and "NO_SUCH_MTG", the answer to every call;
\* "NO_SUCH_TRN" and "DELETED_TRN", the answer to the probe of transaction 0
\* only; "load_ProtocolError", a ProtocolError once the metadata is asked for.
Statuses == {"ok", "timeout", "ProtocolError", "NO_SUCH_MTG", "NO_SUCH_TRN",
             "DELETED_TRN", "load_ProtocolError"}

\* mtg.check_update(0) in get_meeting.
ExistenceProbe(loc) ==
    IF rstatus[loc] = "load_ProtocolError" THEN "ok" ELSE rstatus[loc]

\* Every other call on the meeting.
Answer(loc) ==
    CASE rstatus[loc] \in {"NO_SUCH_TRN", "DELETED_TRN"} -> "ok"
      [] rstatus[loc] = "load_ProtocolError" -> "ProtocolError"
      [] OTHER -> rstatus[loc]

\* What get_meeting would be if it swallowed every DiscussError of the probe.
get_meeting_swallow(s, name) ==
    LET location == Lookup(s.entries, name) IN
    IF s.meetingcache[location] # NoMtg
    THEN [s |-> s, kind |-> "ok", loc |-> location]
    ELSE LET s1 == Call(get_connection(s, HostOf(location)),
                        "check_update", location) IN
         IF ~IsDiscussError(ExistenceProbe(location))
               /\ ExistenceProbe(location) # "ok"
         THEN [s |-> s1, kind |-> ExistenceProbe(location), loc |-> location]
         ELSE IF Answer(location) # "ok"
         THEN [s |-> Call(s1, "load_info", location),
               kind |-> Answer(location), loc |-> location]
         ELSE [s |-> [Call(s1, "load_info", location)
                        EXCEPT !.meetingcache[location] = LoadInfo(location)],
               kind |-> "ok", loc |-> location]

\* What get_meeting would be without the meeting cache.
get_meeting_uncached(s, name) ==
    LET location == Lookup(s.entries, name)
        s1 == Call(get_connection(s, HostOf(location)), "check_update", location)
    IN  IF ExistenceProbe(location) \notin {"ok", "NO_SUCH_TRN"}
        THEN [s |-> s1, kind |-> ExistenceProbe(location), loc |-> location]
        ELSE IF Answer(location) # "ok"
        THEN [s |-> Call(s1, "load_info", location),
              kind |-> Answer(location), loc |-> location]
        ELSE [s |-> [Call(s1, "load_info", location)
                       EXCEPT !.meetingcache[location] = LoadInfo(location)],
              kind |-> "ok", loc |-> location]

\* get_meeting: the cached Meeting, or a new one: connection, existence probe
\* check_update(0) (NO_SUCH_TRN is swallowed, anything else raised),
\* load_info, cache.  Answers [s, kind, loc].
get_meeting(s, name) ==
    LET location == Lookup(s.entries, name) IN
    IF s.meetingcache[location] # NoMtg
    THEN [s |-> s, kind |-> "ok", loc |-> location]
    ELSE LET s1 == Call(get_connection(s, HostOf(location)),
                        "check_update", location) IN
         IF ExistenceProbe(location) \notin {"ok", "NO_SUCH_TRN"}
         THEN [s |-> s1, kind |-> ExistenceProbe(location), loc |-> location]
         ELSE IF Answer(location) # "ok"
         THEN [s |-> Call(s1, "load_info", location),
               kind |-> Answer(location), loc |-> location]
         ELSE [s |-> [Call(s1, "load_info", location)
                        EXCEPT !.meetingcache[location] = LoadInfo(location)],
               kind |-> "ok", loc |-> location]

\* discuss.Meeting.check_update(n): is there anything newer than n.
CheckUpdate(loc, n) == Max(remote[loc].live) > n

\* meeting_has_changed: the freshness probe relative to the cursor.  Answers
\* [s, kind, val]; an error of the lookup or of the probe is raised.
meeting_has_changed(s, loc) ==
    LET lr == last_read_transaction(s.entries, s.meetingcache[loc]) IN
    IF lr.kind # "ok" THEN [s |-> s, kind |-> lr.kind, val |-> FALSE]
    ELSE IF Answer(loc) # "ok"
    THEN [s |-> Call(s, "check_update", loc), kind |-> Answer(loc), val |-> FALSE]
    ELSE [s |-> Call(s, "check_update", loc), kind |-> "ok",
          val |-> CheckUpdate(loc, lr.val)]

\* The order in which a scan iterates over rcfile.entries.
ScanOrder == <<"a", "b", "c">>

\* mark_current_meeting_as_changed: the row of the current meeting loses its
\* bold markup when the probe says nothing is unread; the loop stops there.
RECURSIVE mark_loop(_, _)
mark_loop(s, i) ==
    IF i > Len(s.meeting_liststore) THEN s
    ELSE LET row == s.meeting_liststore[i] IN
         IF row.mtg = s.current_meeting /\ row.bold
         THEN Let(meeting_has_changed(s, s.current_meeting), LAMBDA h :
              IF h.kind # "ok" THEN Raise(h.s, h.kind)
              ELSE IF ~h.val
              THEN [h.s EXCEPT !.meeting_liststore[i].bold = FALSE]
              ELSE mark_loop(h.s, i + 1))
         ELSE mark_loop(s, i + 1)

mark_current_meeting_as_changed(s) == mark_loop(s, 1)

\* The body of display_transaction's try block once the transaction is at
\* hand: format it (assert trn is not None), unmark the meeting, make it the
\* current transaction.
show_transaction(s, trn) ==
    IF trn = NoTrn THEN Raise(s, "AssertionError")
    ELSE Let(mark_current_meeting_as_changed(s), LAMBDA s1 :
         IF s1.exc # "" THEN s1
         ELSE [s1 EXCEPT !.current_transaction = trn, !.displayed = TRUE,
                         !.sensitive.next_chain = (trn.nref # 0),
                         !.sensitive.prev_chain = (trn.pref # 0)])

\* display_transaction(num_or_obj, by_object): a number is fetched with
\* get_transaction (which records the view), an object is shown as it is;
\* ValueError and DiscussError end in a dialog, anything else leaves the handler.
display_transaction_obj(s, trn) ==
    Let(show_transaction(s, trn), LAMBDA s1 :
        IF s1.exc = "ValueError" \/ IsDiscussError(s1.exc)
        THEN [s1 EXCEPT !.exc = ""] ELSE s1)

\* What display_transaction would be if every recorded view were written to
\* the file at once.
display_transaction_num_saving(s, num) ==
    LET g == get_transaction(s.entries, s.meetingcache[s.current_meeting],
                             num, TRUE)
        s0 == [s EXCEPT !.calls = @ \cup {<<"get_transaction", s.current_meeting>> :
                                            i \in 1..Len(g.fetched)},
                        !.entries = g.ents]
    IN  IF g.kind # "ok" THEN s0
        ELSE display_transaction_obj(
                 Save([s0 EXCEPT !.touched = [loc |-> s.current_meeting,
                                              num |-> g.trn.current]]), g.trn)

display_transaction_num(s, num) ==
    LET g == get_transaction(s.entries, s.meetingcache[s.current_meeting],
                             num, TRUE)
        s0 == [s EXCEPT !.calls = @ \cup {<<"get_transaction", s.current_meeting>> :
                                            i \in 1..Len(g.fetched)},
                        !.entries = g.ents]
    IN  IF g.kind # "ok" THEN s0
        ELSE display_transaction_obj(
                 [s0 EXCEPT !.touched = [loc |-> s.current_meeting,
                                         num |-> g.trn.current]], g.trn)

\* change_meeting.
change_meeting(s, loc) ==
    IF s.current_meeting = loc THEN s
    ELSE
    LET s1 == [s EXCEPT !.trans_liststore = <<>>, !.current_meeting = loc,
                        !.sensitive.next_chain = FALSE,
                        !.sensitive.prev_chain = FALSE]
        mtg == s1.meetingcache[loc]
        lr == last_read_transaction(s1.entries, mtg)
    IN  IF lr.kind # "ok" THEN Raise(s1, lr.kind)
        ELSE
        LET g == get_transaction(s1.entries, mtg, lr.val, TRUE)
            s2 == [s1 EXCEPT !.calls = @ \cup {<<"get_transaction", loc>> :
                                                 i \in 1..Len(g.fetched)}]
        IN  IF g.kind = "ok"
            THEN [s2 EXCEPT !.entries = g.ents, !.current_transaction = g.trn,
                            !.touched = [loc |-> loc, num |-> g.trn.current]]
            ELSE
            \* except (ValueError, discuss.DiscussError): dialog, then the
            \* next valid transaction is displayed by object.
            LET f == find_next_valid_transaction(s2.entries, mtg, FALSE)
                s3 == [s2 EXCEPT !.calls = @ \cup {<<"get_transaction", loc>> :
                                                     i \in 1..Len(f.fetched)}]
            IN  IF f.kind \notin {"ok", "None"} THEN Raise(s3, f.kind)
                ELSE display_transaction_obj(
                         [s3 EXCEPT !.entries = f.ents,
                                    !.touched = IF f.kind = "ok"
                                                THEN [loc |-> loc, num |-> f.trn.current]
                                                ELSE @],
                         f.trn)

\* upper_treeview_cursor_changed for the row the cursor is on: in transaction
\* mode the row's transaction is displayed by object, in meeting mode the
\* row's meeting is attended.
upper_treeview_cursor_changed(s, row) ==
    IF s.mode = "transactions"
    THEN IF row > Len(s.trans_liststore) THEN s
         ELSE display_transaction_obj(s, s.trans_liststore[row])
    ELSE IF row > Len(s.meeting_liststore) THEN s
         ELSE change_meeting(s, s.meeting_liststore[row].mtg)

\* upper_treeview.set_cursor(row): Gtk emits cursor-changed and runs the
\* handler; an exception of a signal handler is reported, not propagated.
set_cursor(s, row) ==
    Let(upper_treeview_cursor_changed(s, row), LAMBDA h :
        [h EXCEPT !.exc = "", !.nested = h.exc])

\* check_meetings: attend every meeting not flagged deleted; flag it on
\* socket.timeout and NO_SUCH_MTG, skip it on other remote errors, take over
\* a changed long name; save if anything changed.
RECURSIVE check_meetings_loop(_, _, _)
check_meetings_loop(s, i, update) ==
    IF i > Len(ScanOrder) THEN [s |-> s, update |-> update]
    ELSE LET m == ScanOrder[i] IN
    IF m \notin DOMAIN s.entries \/ s.entries[m].deleted
    THEN check_meetings_loop(s, i + 1, update)
    ELSE Let(get_meeting(s, m), LAMBDA g :
         Let([g.s EXCEPT !.visited = @ \cup {<<"check_meetings", m>>}], LAMBDA s1 :
         IF g.kind = "timeout" \/ g.kind = "NO_SUCH_MTG"
         THEN check_meetings_loop([s1 EXCEPT !.entries[m].deleted = TRUE],
                                  i + 1, TRUE)
         ELSE IF IsDiscussError(g.kind) \/ g.kind = "ProtocolError"
         THEN check_meetings_loop(s1, i + 1, update)
         ELSE IF s1.meetingcache[m].long_name # s1.entries[m].names[1]
         THEN check_meetings_loop(
                  [s1 EXCEPT !.entries[m].names[1] = s1.meetingcache[m].long_name],
                  i + 1, TRUE)
         ELSE check_meetings_loop(s1, i + 1, update)))

check_meetings(s) ==
    Let(check_meetings_loop(s, 1, FALSE), LAMBDA r :
        IF r.update THEN Save(r.s) ELSE r.s)

\* _find_unread_meetings from the first row: the rows after it are probed in
\* order; the row of the first changed meeting, 0 for None.
RECURSIVE find_unread_loop(_, _)
find_unread_loop(s, i) ==
    IF i > Len(s.meeting_liststore) THEN [s |-> s, row |-> 0]
    ELSE Let(meeting_has_changed(s, s.meeting_liststore[i].mtg), LAMBDA h :
         IF h.kind # "ok" THEN [s |-> Raise(h.s, h.kind), row |-> 0]
         ELSE IF h.val THEN [s |-> h.s, row |-> i]
         ELSE find_unread_loop(h.s, i + 1))

\* What the loop of update_meeting_list would be if it did not pass over the
\* entries flagged deleted.
RECURSIVE update_list_loop_all(_, _)
update_list_loop_all(s, i) ==
    IF i > Len(ScanOrder) \/ s.exc # "" THEN s
    ELSE LET m == ScanOrder[i] IN
    IF m \notin DOMAIN s.entries
    THEN update_list_loop_all(s, i + 1)
    ELSE Let(get_meeting(s, m), LAMBDA g :
         Let([g.s EXCEPT !.visited = @ \cup {<<"update_meeting_list", m>>}], LAMBDA s1 :
         IF g.kind # "ok" THEN update_list_loop_all(s1, i + 1)
         ELSE Let(meeting_has_changed(s1, m), LAMBDA h :
              IF h.kind # "ok" THEN Raise(h.s, h.kind)
              ELSE update_list_loop_all(
                       [h.s EXCEPT !.meeting_liststore =
                                      Append(@, [bold |-> h.val, mtg |-> m])],
                       i + 1))))

\* The loop of update_meeting_list: a meeting that cannot be attended gets a
\* dialog and is left out; the freshness probe is outside the try block.
RECURSIVE update_list_loop(_, _)
update_list_loop(s, i) ==
    IF i > Len(ScanOrder) \/ s.exc # "" THEN s
    ELSE LET m == ScanOrder[i] IN
    IF m \notin DOMAIN s.entries \/ s.entries[m].deleted
    THEN update_list_loop(s, i + 1)
    ELSE Let(get_meeting(s, m), LAMBDA g :
         Let([g.s EXCEPT !.visited = @ \cup {<<"update_meeting_list", m>>}], LAMBDA s1 :
         IF g.kind # "ok" THEN update_list_loop(s1, i + 1)
         ELSE Let(meeting_has_changed(s1, m), LAMBDA h :
              IF h.kind # "ok" THEN Raise(h.s, h.kind)
              ELSE update_list_loop(
                       [h.s EXCEPT !.meeting_liststore =
                                      Append(@, [bold |-> h.val, mtg |-> m])],
                       i + 1))))

\* update_meeting_list: rebuild the list, then put the cursor on the next
\* unread meeting, or on the first row.
update_meeting_list(s) ==
    Let(update_list_loop([s EXCEPT !.meeting_liststore = <<>>], 1), LAMBDA s0 :
    Let(IF s0.exc # "" THEN s0
        ELSE [s0 EXCEPT !.sensitive.nav = Len(s0.meeting_liststore) > 0], LAMBDA s1 :
    IF s1.exc # "" \/ Len(s1.meeting_liststore) < 1 THEN s1
    ELSE Let(find_unread_loop(s1, 2), LAMBDA u :
         IF u.s.exc # "" THEN u.s
         ELSE set_cursor(u.s, IF u.row # 0 THEN u.row ELSE 1))))

\* The handler's outcome becomes the next state.
Commit(s, name, arg) ==
    \E t \in {s} :
        /\ entries' = t.entries
        /\ saved' = t.saved
        /\ meetingcache' = t.meetingcache
        /\ connectioncache' = t.connectioncache
        /\ clients' = t.clients
        /\ current_meeting' = t.current_meeting
        /\ current_transaction' = t.current_transaction
        /\ trans_liststore' = t.trans_liststore
        /\ meeting_liststore' = t.meeting_liststore
        /\ mode' = t.mode
        /\ sensitive' = t.sensitive
        /\ loader' = loader
        /\ op' = [name |-> name, arg |-> arg, exc |-> t.exc, nested |-> t.nested,
                  calls |-> t.calls, visited |-> t.visited,
                  displayed |-> t.displayed, touched |-> t.touched,
                  progress |-> t.progress]

\* ------------------------------------------------------ Spec: the handlers

\* The meetings the server holds for location a in an initial state.
AppShapes ==
    { r \in RemoteShapes("La") :
        /\ r.highest = MaxTrn
        /\ \/ r.lowest = 1 /\ r.live = (1..MaxTrn) \ {MaxTrn - 1}
           \/ r.lowest = 2 /\ r.live = 2..(MaxTrn - 1) }

\* The meetings at b and c.
FixedShape(loc) ==
    IF loc = "b"
    THEN [lowest |-> 1, highest |-> 2, live |-> {1, 2}, long_name |-> "Lb",
          thread |-> [n \in 1..2 |-> 1], grown |-> 0, gone |-> 0]
    ELSE [lowest |-> 1, highest |-> 1, live |-> {1}, long_name |-> "Lc",
          thread |-> [n \in 1..1 |-> 1], grown |-> 0, gone |-> 0]

\* The registry as loaded from the .meetings file: a and b, any cursor for a,
\* the long name of b as the file has it (the server may have renamed it).
Init ==
    /\ \E r \in AppShapes :
         remote = [l \in Locs |-> IF l = "a" THEN r ELSE FixedShape(l)]
    /\ rstatus = [l \in Locs |-> "ok"]
    /\ \E c \in 0..(MaxTrn + 1), nm \in {"Lb", "Lb0"} :
         entries = [l \in {"a", "b"} |->
                      IF l = "a"
                      THEN [last_transaction |-> c, deleted |-> FALSE,
                            names |-> <<"La", ShortName(l)>>]
                      ELSE [last_transaction |-> 2, deleted |-> FALSE,
                            names |-> <<nm, ShortName(l)>>]]
    /\ saved = entries
    /\ meetingcache = [l \in Locs |-> NoMtg]
    /\ connectioncache = {}
    /\ clients = [h \in Hosts |-> 0]
    /\ current_meeting = NoLoc
    /\ current_transaction = NoTrn
    /\ trans_liststore = <<>>
    /\ meeting_liststore = <<>>
    /\ mode = "meetings"
    /\ sensitive = AllInsensitive
    /\ phase = "start"
    /\ loader = <<>>
    /\ op = NoOp

\* Xdsc.__init__: check_meetings(), no current meeting, update_meeting_list().
Startup ==
    /\ phase = "start"
    /\ phase' = "running"
    /\ Commit(Then(check_meetings(Begin), update_meeting_list), "startup", 0)
    /\ UNCHANGED <<remote, rstatus>>

\* The user puts the cursor on row `row` of the upper tree view.
SelectRow(row) ==
    /\ phase = "running"
    /\ row \in 1..(IF mode = "transactions" THEN Len(trans_liststore)
                                            ELSE Len(meeting_liststore))
    /\ Commit(upper_treeview_cursor_changed(Begin, row),
              IF mode = "transactions" THEN "select_transaction"
                                       ELSE "change_meeting",
              row)
    /\ UNCHANGED <<remote, rstatus, phase>>

\* A handler that reads a field of self.current_transaction while that is
\* None raises AttributeError.
WithTrn(s, F(_)) ==
    IF s.current_transaction = NoTrn THEN Raise(s, "AttributeError") ELSE F(s)

\* What pointer_clicked would be if a zero pointer led to the first
\* transaction of the meeting.
pointer_clicked_wrap(s, field) ==
    WithTrn(s, LAMBDA t :
        LET n == CASE field = "next" -> t.current_transaction.next
                   [] field = "prev" -> t.current_transaction.prev
                   [] field = "nref" -> t.current_transaction.nref
                   [] OTHER -> t.current_transaction.pref
        IN  display_transaction_num(
                t, IF n = 0 THEN t.meetingcache[t.current_meeting].first ELSE n))

\* next_button_clicked / prev_button_clicked / next_chain_button_clicked /
\* prev_chain_button_clicked: nothing on a zero pointer, the pointer's target
\* is displayed by number otherwise.
pointer_clicked(s, field) ==
    WithTrn(s, LAMBDA t :
        LET n == CASE field = "next" -> t.current_transaction.next
                   [] field = "prev" -> t.current_transaction.prev
                   [] field = "nref" -> t.current_transaction.nref
                   [] OTHER -> t.current_transaction.pref
        IN  IF n = 0 THEN t ELSE display_transaction_num(t, n))

PointerButton(field) ==
    /\ phase = "running"
    /\ sensitive.nav
    /\ field = "nref" => sensitive.next_chain
    /\ field = "pref" => sensitive.prev_chain
    /\ Commit(pointer_clicked(Begin, field), "pointer_clicked", field)
    /\ UNCHANGED <<remote, rstatus, phase>>

\* goto_start_activate / goto_end_activate / goto_first_activate /
\* goto_last_activate.
goto_activate(s, which) ==
    CASE which = "fref" ->
           WithTrn(s, LAMBDA t : display_transaction_num(t, t.current_transaction.fref))
      [] which = "lref" ->
           WithTrn(s, LAMBDA t : display_transaction_num(t, t.current_transaction.lref))
      [] which = "first" ->
           display_transaction_num(s, s.meetingcache[s.current_meeting].first)
      [] OTHER ->
           display_transaction_num(s, s.meetingcache[s.current_meeting].last)

GotoMenu(which) ==
    /\ phase = "running"
    /\ sensitive.nav
    /\ current_meeting # NoLoc
    /\ Commit(goto_activate(Begin, which), "goto_activate", which)
    /\ UNCHANGED <<remote, rstatus, phase>>

\* goto_number_activate with the number typed into the dialog.
GotoNumber(n) ==
    /\ phase = "running"
    /\ sensitive.nav
    /\ current_meeting # NoLoc
    /\ Commit(display_transaction_num(Begin, n), "goto_number_activate", n)
    /\ UNCHANGED <<remote, rstatus, phase>>

\* update_button_clicked.
UpdateButton ==
    /\ phase = "running"
    /\ Commit(update_meeting_list(Begin), "update_meeting_list", 0)
    /\ UNCHANGED <<remote, rstatus, phase>>

\* The numbers of S in ascending order.
Ascending(S) ==
    [i \in 1..Cardinality(S) |->
        CHOOSE x \in S : Cardinality({y \in S : y < x}) = i - 1]

\* _select_transaction_by_num from the first row: the cursor is set on the
\* first row holding that number, if any.
RECURSIVE select_by_num_loop(_, _, _)
select_by_num_loop(s, num, i) ==
    IF i > Len(s.trans_liststore) THEN s
    ELSE IF s.trans_liststore[i].current = num THEN set_cursor(s, i)
    ELSE select_by_num_loop(s, num, i + 1)

\* mode_transactions_activate: an empty window is filled with the
\* transactions from the current one to the last, the view switches to the
\* window and the cursor goes to the current transaction's row.
mode_transactions_activate(s) ==
    IF s.current_meeting = NoLoc THEN s
    ELSE WithTrn(s, LAMBDA t :
        LET r == remote[t.current_meeting]
            nums == Ascending({n \in r.live : n >= t.current_transaction.current})
            filled == IF Len(t.trans_liststore) # 0 THEN t
                      ELSE [Call(t, "transactions", t.current_meeting)
                              EXCEPT !.trans_liststore =
                                 [i \in 1..Len(nums) |->
                                    TrnOf(t.current_meeting, r, nums[i])]]
        IN  select_by_num_loop([filled EXCEPT !.mode = "transactions"],
                               t.current_transaction.current, 1))

ModeTransactions ==
    /\ phase = "running"
    /\ sensitive.nav
    /\ Commit(mode_transactions_activate(Begin), "mode_transactions_activate", 0)
    /\ UNCHANGED <<remote, rstatus, phase>>

\* mode_meetings_activate.
ModeMeetings ==
    /\ phase = "running"
    /\ mode = "transactions"
    /\ Commit([Begin EXCEPT !.mode = "meetings"], "mode_meetings_activate", 0)
    /\ UNCHANGED <<remote, rstatus, phase>>

\* The meeting loc after a post in reply to transaction reply_to (0: a new
\* thread): the server appends highest + 1.
Posted(r, reply_to) ==
    LET n == r.highest + 1 IN
    [r EXCEPT !.highest = n, !.live = @ \cup {n}, !.grown = @ + 1,
              !.thread = [k \in 1..n |->
                            IF k < n THEN r.thread[k]
                            ELSE IF reply_to = 0 THEN n ELSE r.thread[reply_to]]]

\* What post_reply would be without load_info(force=True).
post_reply_noreload(s, replying) ==
    LET loc == s.current_meeting
        reply_to == IF replying THEN s.current_transaction.current ELSE 0
    IN  IF loc = NoLoc THEN [s |-> Raise(s, "AttributeError"), r |-> FixedShape("c")]
        ELSE IF Answer(loc) # "ok"
        THEN [s |-> Raise(Call(s, "post", loc), Answer(loc)), r |-> remote[loc]]
        ELSE LET r == Posted(remote[loc], reply_to)
                 s1 == Call(Call(s, "post", loc), "load_info", loc)
             IN  [s |-> display_transaction_obj(s1, TrnOf(loc, r, r.highest)),
                  r |-> r]

\* post_reply once the editor and the dialog are done: post, force-reload the
\* Meeting in place, display the new transaction by object.  Answers the
\* handler state and the meeting as the server holds it afterwards.
post_reply(s, replying) ==
    LET loc == s.current_meeting
        reply_to == IF replying THEN s.current_transaction.current ELSE 0
    IN  IF loc = NoLoc THEN [s |-> Raise(s, "AttributeError"), r |-> FixedShape("c")]
        ELSE IF Answer(loc) # "ok"
        THEN [s |-> Raise(Call(s, "post", loc), Answer(loc)), r |-> remote[loc]]
        ELSE LET r == Posted(remote[loc], reply_to)
                 s1 == [Call(Call(s, "post", loc), "load_info", loc)
                          EXCEPT !.meetingcache[loc] = MetaOf(loc, r)]
             IN  [s |-> display_transaction_obj(s1, TrnOf(loc, r, r.highest)),
                  r |-> r]

\* enter_reply_activate / enter_new_transaction_activate.
PostReply(replying) ==
    /\ phase = "running"
    /\ sensitive.nav
    /\ current_meeting # NoLoc => remote[current_meeting].grown < MaxPosts
    /\ LET p == post_reply(Begin, replying) IN
       /\ Commit(p.s, "post_reply", replying)
       /\ remote' = IF current_meeting = NoLoc THEN remote
                    ELSE [remote EXCEPT ![current_meeting] = p.r]
    /\ UNCHANGED <<rstatus, phase>>

\* add_meeting: a discuss.Client of its own, rcfile.add, rcfile.save.
add_meeting(s, loc) ==
    LET s1 == Call([s EXCEPT !.clients[HostOf(loc)] = @ + 1], "add", loc) IN
    IF loc \in DOMAIN s.entries THEN Raise(s1, "ValueError")
    ELSE IF Answer(loc) # "ok" THEN Raise(s1, Answer(loc))
    ELSE Save([s1 EXCEPT !.entries =
                 [l \in DOMAIN s.entries \cup {loc} |->
                    IF l = loc
                    THEN [last_transaction |-> 0, deleted |-> FALSE,
                          names |-> <<remote[loc].long_name, ShortName(loc)>>]
                    ELSE s.entries[l]]])

\* configure_add_meeting_activate with the dialog confirmed: add_meeting,
\* update_meeting_list; ValueError, DiscussError and ProtocolError end in a
\* dialog.
configure_add_meeting_activate(s, loc) ==
    LET s1 == Then(add_meeting(s, loc), update_meeting_list) IN
    IF s1.exc = "ValueError" \/ IsDiscussError(s1.exc) \/ s1.exc = "ProtocolError"
    THEN [s1 EXCEPT !.exc = ""] ELSE s1

AddMeeting(loc) ==
    /\ phase = "running"
    /\ clients[HostOf(loc)] < MaxClients
    /\ Commit(configure_add_meeting_activate(Begin, loc),
              "configure_add_meeting_activate", loc)
    /\ UNCHANGED <<remote, rstatus, phase>>

\* What the loader's loop would be if it fetched through the wrapper's
\* get_transaction, which records the view.
RECURSIVE load_more_loop_touching(_, _, _)
load_more_loop_touching(s, trn, k) ==
    IF k <= 0 \/ trn.prev = 0 THEN s
    ELSE Let(get_transaction(s.entries, s.meetingcache[s.current_meeting],
                             trn.prev, TRUE), LAMBDA g :
         Let(Call(s, "get_transaction", s.current_meeting), LAMBDA s1 :
         IF g.kind # "ok" THEN Raise(s1, g.kind)
         ELSE load_more_loop_touching(
                  [s1 EXCEPT !.entries = g.ents,
                             !.trans_liststore = <<g.trn>> \o @],
                  g.trn, k - 1)))

\* The loop of load_more_transactions from the oldest row trn with k rounds
\* left: stop at prev = 0, otherwise fetch trn.prev from the Meeting (no
\* range check, no touch) and prepend it; a fetch error leaves the handler.
RECURSIVE load_more_loop(_, _, _)
load_more_loop(s, trn, k) ==
    IF k <= 0 \/ trn.prev = 0 THEN s
    ELSE Let(Fetch(s.current_meeting, trn.prev), LAMBDA f :
         Let(Call(s, "get_transaction", s.current_meeting), LAMBDA s1 :
         IF f.kind # "ok" THEN Raise(s1, f.kind)
         ELSE load_more_loop([s1 EXCEPT !.trans_liststore = <<f.trn>> \o @],
                             f.trn, k - 1)))

\* load_more_transactions(num); get_value on the iterator of an empty list
\* store (None) raises TypeError.
load_more_transactions(s, num) ==
    IF Len(s.trans_liststore) = 0 THEN Raise(s, "TypeError")
    ELSE load_more_loop(s, s.trans_liststore[1], num)

\* The loop of show_all_activate: fetch and prepend until prev = 0, reporting
\* trn.current - current_meeting.first after each fetch.
RECURSIVE show_all_loop(_, _)
show_all_loop(s, trn) ==
    IF trn.prev = 0 THEN s
    ELSE Let(Fetch(s.current_meeting, trn.prev), LAMBDA f :
         Let(Call(s, "get_transaction", s.current_meeting), LAMBDA s1 :
         IF f.kind # "ok" THEN Raise(s1, f.kind)
         ELSE show_all_loop(
                  [s1 EXCEPT !.trans_liststore = <<f.trn>> \o @,
                             !.progress = Append(@,
                                 f.trn.current
                                   - s1.meetingcache[s1.current_meeting].first)],
                  f.trn)))

show_all_activate(s) ==
    IF Len(s.trans_liststore) = 0 THEN Raise(s, "TypeError")
    ELSE show_all_loop(s, s.trans_liststore[1])

\* The rows of show_back10_activate.
Back == 10

\* load_more_transactions as called by upper_treeview_move_cursor (the Up
\* key on the first row, current_transaction.prev # 0: one more for a line,
\* the number of visible rows less one for a page) and by
\* show_back10_activate (Back less the topmost visible row).
LoadMore(num) ==
    /\ phase = "running"
    /\ \/ /\ current_transaction # NoTrn
          /\ current_transaction.prev # 0
          /\ \/ num = 1
             \/ num < (IF mode = "transactions" THEN Len(trans_liststore)
                                                ELSE Len(meeting_liststore))
       \/ /\ mode = "transactions"
          /\ \E v \in 0..(Len(trans_liststore) - 1) : v < Back /\ num = Back - v
    /\ Commit(load_more_transactions(Begin, num), "load_more_transactions",
              [num |-> num, held |-> Len(trans_liststore)])
    /\ UNCHANGED <<remote, rstatus, phase>>

\* The Up key on the first row while the current transaction is the first of
\* the meeting: the bell, nothing else.
MoveCursorBell ==
    /\ phase = "running"
    /\ current_transaction # NoTrn
    /\ current_transaction.prev = 0
    /\ Commit(Begin, "upper_treeview_move_cursor", 0)
    /\ UNCHANGED <<remote, rstatus, phase>>

\* show_all_activate.
ShowAll ==
    /\ phase = "running"
    /\ mode = "transactions"
    /\ Commit(show_all_activate(Begin), "show_all_activate",
              [held |-> Len(trans_liststore)])
    /\ UNCHANGED <<remote, rstatus, phase>>

\* Somebody deletes a transaction of the meeting being read.
WinRemoteDelete(n) ==
    /\ phase = "running"
    /\ current_meeting = "a"
    /\ RemoteDelete("a", n)
    /\ op' = NoOp
    /\ UNCHANGED <<rstatus, entries, saved, connVars, uiVars>>

\* What delete_meeting would be if it removed the entry from memory only.
delete_meeting_unsaved(s, meeting) ==
    LET mtg == Lookup(s.entries, meeting) IN
    IF mtg = NoLoc THEN Raise(s, "ValueError")
    ELSE [s EXCEPT !.entries = [l \in DOMAIN s.entries \ {mtg} |-> s.entries[l]]]

\* delete_meeting: ValueError when the name resolves to nothing, otherwise
\* del rcfile.entries[mtg], rcfile.save(), rcfile.recache().
delete_meeting(s, meeting) ==
    LET mtg == Lookup(s.entries, meeting) IN
    IF mtg = NoLoc THEN Raise(s, "ValueError")
    ELSE Save([s EXCEPT !.entries =
                 [l \in DOMAIN s.entries \ {mtg} |-> s.entries[l]]])

\* configure_delete_meeting_activate with the dialog confirmed:
\* delete_meeting, update_meeting_list; ValueError and DiscussError end in a
\* dialog.
configure_delete_meeting_activate(s, meeting) ==
    LET s1 == Then(delete_meeting(s, meeting), update_meeting_list) IN
    IF s1.exc = "ValueError" \/ IsDiscussError(s1.exc)
    THEN [s1 EXCEPT !.exc = ""] ELSE s1

\* The names typed into the delete dialog.
DeleteNames == {"sa", "sb", "sc", "Lb", "zz"}

DeleteMeeting(meeting) ==
    /\ phase = "running"
    /\ Commit(configure_delete_meeting_activate(Begin, meeting),
              "configure_delete_meeting_activate",
              [meeting |-> meeting, mtg |-> Lookup(entries, meeting)])
    /\ UNCHANGED <<remote, rstatus, phase>>

\* The server starts answering the calls on a meeting differently.
SetStatus(loc, st) ==
    /\ rstatus[loc] # st
    /\ phase = "start" \/ st \in {"ok", "timeout"}
    /\ rstatus' = [rstatus EXCEPT ![loc] = st]
    /\ op' = NoOp
    /\ UNCHANGED <<remote, entries, saved, connVars, uiVars>>

Next ==
    \/ Startup
    \/ \E row \in 1..(MaxTrn + MaxPosts) : SelectRow(row)
    \/ \E f \in {"next", "prev", "nref", "pref"} : PointerButton(f)
    \/ \E w \in {"fref", "lref", "first", "last"} : GotoMenu(w)
    \/ \E n \in 0..(MaxTrn + MaxPosts + 1) : GotoNumber(n)
    \/ UpdateButton
    \/ \E st \in {"ok", "timeout", "NO_SUCH_MTG", "ProtocolError"} : SetStatus("b", st)

Spec == Init /\ [][Next]_vars

\* The transaction window: one user reading meeting a from a fresh cursor,
\* switching between the two views, stepping, selecting rows and posting.
InitWin ==
    /\ Init
    /\ entries["a"].last_transaction = 1
    /\ entries["b"].names[1] = "Lb"

NextWin ==
    \/ Startup
    \/ \E row \in 1..(MaxTrn + MaxPosts) : SelectRow(row)
    \/ \E f \in {"next", "prev"} : PointerButton(f)
    \/ ModeTransactions
    \/ ModeMeetings
    \/ \E rep \in BOOLEAN : PostReply(rep)

SpecWin == InitWin /\ [][NextWin]_vars

\* What quit would be without rcfile.save().
quit_nosave(s) == s

\* quit: rcfile.save(), then Gtk.main_quit().
quit(s) == Save(s)

\* quit_button_clicked, or xdsc_main_window_delete_event with the dialog
\* confirmed.
Quit(via) ==
    /\ phase = "running"
    /\ phase' = "quit"
    /\ Commit(quit(Begin), "quit", via)
    /\ UNCHANGED <<remote, rstatus>>

\* Saving: one user reading, adding and deleting meetings, and quitting.
NextSave ==
    \/ Startup
    \/ \E row \in 1..(MaxTrn + MaxPosts) : SelectRow(row)
    \/ \E f \in {"next", "prev"} : PointerButton(f)
    \/ AddMeeting("c")
    \/ \E meeting \in DeleteNames : DeleteMeeting(meeting)
    \/ \E via \in {"quit_button", "delete_event"} : Quit(via)

SpecSave == InitWin /\ [][NextSave]_vars

\* Deleting while reading: one user reading the meetings of the list, in the
\* meeting list or in the transaction window, and deleting meetings.
NextDel ==
    \/ Startup
    \/ \E row \in 1..(MaxTrn + MaxPosts) : SelectRow(row)
    \/ \E f \in {"next", "prev"} : PointerButton(f)
    \/ ModeTransactions
    \/ ModeMeetings
    \/ \E meeting \in DeleteNames : DeleteMeeting(meeting)

SpecDel == InitWin /\ [][NextDel]_vars

\* Posting: one user reading the meetings of the list and posting new
\* transactions and replies.
NextPost ==
    \/ Startup
    \/ \E row \in 1..(MaxTrn + MaxPosts) : SelectRow(row)
    \/ \E f \in {"next", "prev"} : PointerButton(f)
    \/ \E rep \in BOOLEAN : PostReply(rep)

SpecPost == InitWin /\ [][NextPost]_vars

\* The window loader: one user reading meeting a in the transaction window
\* and loading older transactions while others delete some on the server.
NextLoad ==
    \/ Startup
    \/ \E f \in {"next", "prev"} : PointerButton(f)
    \/ ModeTransactions
    \/ ModeMeetings
    \/ \E num \in 0..Back : LoadMore(num)
    \/ MoveCursorBell
    \/ ShowAll
    \/ \E n \in 1..MaxTrn : WinRemoteDelete(n)

SpecLoad == InitWin /\ [][NextLoad]_vars

\* Attending: get_meeting called for the locations and names of the
\* registry while the three servers answer in every way.
InitAttend ==
    /\ remote \in {[l \in Locs |-> IF l = "a" THEN r ELSE FixedShape(l)] :
                     r \in AppShapes}
    /\ rstatus \in [Locs -> Statuses]
    /\ entries = [l \in Locs |->
                    [last_transaction |-> 0, deleted |-> FALSE,
                     names |-> <<remote[l].long_name, ShortName(l)>>]]
    /\ saved = entries
    /\ meetingcache = [l \in Locs |-> NoMtg]
    /\ connectioncache = {}
    /\ clients = [h \in Hosts |-> 0]
    /\ current_meeting = NoLoc
    /\ current_transaction = NoTrn
    /\ trans_liststore = <<>>
    /\ meeting_liststore = <<>>
    /\ mode = "meetings"
    /\ sensitive = AllInsensitive
    /\ phase = "running"
    /\ loader = <<>>
    /\ op = NoOp

\* DiscussWrapper.get_meeting(name) called on its own.
Attend(name) ==
    /\ Lookup(entries, name) # NoLoc
    /\ LET g == get_meeting(Begin, name) IN
         Commit(IF g.kind = "ok" THEN g.s ELSE Raise(g.s, g.kind),
                "get_meeting", g.loc)
    /\ UNCHANGED <<remote, rstatus, phase>>

\* The server of a meeting that cannot be attended recovers.
Recover(loc) ==
    /\ rstatus[loc] # "ok"
    /\ rstatus' = [rstatus EXCEPT ![loc] = "ok"]
    /\ op' = NoOp
    /\ UNCHANGED <<remote, entries, saved, connVars, uiVars>>

NextAttend ==
    \/ \E name \in Locs \cup {"La", "sb"} : Attend(name)
    \/ \E loc \in Locs : Recover(loc)

SpecAttend == InitAttend /\ [][NextAttend]_vars

\* The meeting list under configuration: meetings are added while the
\* servers come and go.
NextAdd ==
    \/ Startup
    \/ \E row \in 1..(MaxTrn + MaxPosts) : SelectRow(row)
    \/ UpdateButton
    \/ \E loc \in Locs : AddMeeting(loc)
    \/ \E meeting \in DeleteNames : DeleteMeeting(meeting)
    \/ \E st \in {"ok", "timeout"} : SetStatus("b", st)

SpecAdd == InitWin /\ [][NextAdd]_vars

\* ------------------------------------------- SpecSusp: the loader, stepwise

\* How many loaders may be under way at once (a second one would be started
\* from the events the first one processes).
MaxNesting == 2

\* The innermost loader under way.
Top == loader[Len(loader)]

\* What Dispatching would be if signal handlers could run at any time.
Dispatching_preemptive == TRUE

\* GTK runs signal handlers from Gtk.main() and from the Gtk.main_iteration()
\* calls of the loaders, which come after get_transaction has returned and
\* the row is prepended.
Dispatching == IF loader = <<>> THEN TRUE ELSE Top.pc = "events"

\* The requests a loader has sent to host h and not yet got the answer of.
InFlight(h) ==
    Cardinality({i \in 1..Len(loader) :
                    loader[i].pc = "wait" /\ HostOf(loader[i].mtg) = h})

\* The loop condition of the loader in frame f is false.
LoaderDone(f) == f.trn.prev = 0 \/ (f.kind = "load_more_transactions" /\ f.k <= 0)

\* The outcome of a loader step, for the claims.
LoaderOp(name, exc, calls) ==
    [name |-> name, exc |-> exc, calls |-> calls, depth |-> Len(loader),
     held |-> Len(trans_liststore)]

\* load_more_transactions(num) or show_all_activate starts: trn is the
\* transaction of the first row (TypeError when the window is empty).
LoaderBegin(kind, num) ==
    /\ phase = "running"
    /\ Dispatching
    /\ Len(loader) < MaxNesting
    /\ IF kind = "show_all_activate"
       THEN mode = "transactions" /\ num = 0
       ELSE \/ /\ current_transaction # NoTrn
               /\ current_transaction.prev # 0
               /\ \/ num = 1
                  \/ num < (IF mode = "transactions" THEN Len(trans_liststore)
                                                     ELSE Len(meeting_liststore))
            \/ /\ mode = "transactions"
               /\ \E v \in 0..(Len(trans_liststore) - 1) :
                     v < Back /\ num = Back - v
    /\ IF Len(trans_liststore) = 0
       THEN /\ loader' = loader
            /\ op' = LoaderOp(kind, "TypeError", {})
       ELSE /\ loader' = Append(loader, [kind |-> kind, trn |-> trans_liststore[1],
                                          k |-> num, pc |-> "test", mtg |-> NoLoc])
            /\ op' = LoaderOp(kind, "", {})
    /\ UNCHANGED <<remote, rstatus, entries, saved, connVars, current_meeting,
                   current_transaction, trans_liststore, meeting_liststore,
                   mode, sensitive, phase>>

\* self.current_meeting.get_transaction(trn.prev): the request leaves.
LoaderSend ==
    /\ loader # <<>>
    /\ Top.pc = "test"
    /\ ~LoaderDone(Top)
    /\ loader' = [loader EXCEPT ![Len(loader)].pc = "wait",
                                ![Len(loader)].mtg = current_meeting]
    /\ op' = LoaderOp("loader_send", "", {<<"get_transaction", current_meeting>>})
    /\ UNCHANGED <<remote, rstatus, entries, saved, connVars, current_meeting,
                   current_transaction, trans_liststore, meeting_liststore,
                   mode, sensitive, phase>>

\* get_transaction returns: the transaction is prepended to
\* self.trans_liststore and the pending events are processed next; an error
\* leaves the loader.
LoaderReceive ==
    /\ loader # <<>>
    /\ Top.pc = "wait"
    /\ LET f == Fetch(Top.mtg, Top.trn.prev) IN
       IF f.kind # "ok"
       THEN /\ loader' = SubSeq(loader, 1, Len(loader) - 1)
            /\ op' = LoaderOp("loader_receive", f.kind, {})
            /\ UNCHANGED trans_liststore
       ELSE /\ loader' = [loader EXCEPT ![Len(loader)].pc = "events",
                                        ![Len(loader)].trn = f.trn,
                                        ![Len(loader)].k = @ - 1]
            /\ trans_liststore' = <<f.trn>> \o trans_liststore
            /\ op' = LoaderOp("loader_receive", "", {})
    /\ UNCHANGED <<remote, rstatus, entries, saved, connVars, current_meeting,
                   current_transaction, meeting_liststore, mode, sensitive,
                   phase>>

\* Gtk.events_pending() answers False: the loop goes on.
LoaderResume ==
    /\ loader # <<>>
    /\ Top.pc = "events"
    /\ loader' = [loader EXCEPT ![Len(loader)].pc = "test"]
    /\ op' = LoaderOp("loader_resume", "", {})
    /\ UNCHANGED <<remote, rstatus, entries, saved, connVars, current_meeting,
                   current_transaction, trans_liststore, meeting_liststore,
                   mode, sensitive, phase>>

\* The loop ends (count exhausted or prev = 0): the loader returns.
LoaderReturn ==
    /\ loader # <<>>
    /\ Top.pc = "test"
    /\ LoaderDone(Top)
    /\ loader' = SubSeq(loader, 1, Len(loader) - 1)
    /\ op' = LoaderOp("loader_return", "", {})
    /\ UNCHANGED <<remote, rstatus, entries, saved, connVars, current_meeting,
                   current_transaction, trans_liststore, meeting_liststore,
                   mode, sensitive, phase>>

\* The handlers GTK dispatches, from the main loop or from a loader's
\* main_iteration, while the user reads one meeting in the transaction window;
\* older rows are asked for by the Up key (one more), by Back from the first
\* row and by Show All.
NextSusp ==
    \/ Startup
    \/ Dispatching /\ \E row \in 1..(MaxTrn + MaxPosts) : SelectRow(row)
    \/ Dispatching /\ \E f \in {"next", "prev"} : PointerButton(f)
    \/ Dispatching /\ ModeTransactions
    \/ \E num \in {1, Back} : LoaderBegin("load_more_transactions", num)
    \/ LoaderBegin("show_all_activate", 0)
    \/ LoaderSend
    \/ LoaderReceive
    \/ LoaderResume
    \/ LoaderReturn

SpecSusp == InitWin /\ [][NextSusp]_vars

\* The same with the way back to the meeting list: the user may switch to
\* another meeting while a loader processes its pending events.
NextSwitch ==
    \/ NextSusp
    \/ Dispatching /\ ModeMeetings

SpecSwitch == InitWin /\ [][NextSwitch]_vars

\* --------------------------------------------------------------- SpecNav

InitNav ==
    /\ \E r \in {s \in RemoteShapes("La") : ValidShape(s)} :
         remote = [l \in Locs |-> IF l = "a" THEN r ELSE FixedShape(l)]
    /\ rstatus = [l \in Locs |-> "ok"]
    /\ \E c \in 0..(MaxTrn + 1) :
         entries = [l \in {"a"} |->
                      [last_transaction |-> c, deleted |-> FALSE,
                       names |-> <<"La", ShortName(l)>>]]
    /\ saved = [l \in {"a"} |->
                      [last_transaction |-> 0, deleted |-> FALSE,
                       names |-> <<"La", ShortName(l)>>]]
    /\ meetingcache = [l \in Locs |-> IF l = "a" THEN LoadInfo(l) ELSE NoMtg]
    /\ connectioncache = {HostOf("a")}
    /\ clients = [h \in Hosts |-> IF h = HostOf("a") THEN 1 ELSE 0]
    /\ current_meeting = NoLoc
    /\ current_transaction = NoTrn
    /\ trans_liststore = <<>>
    /\ meeting_liststore = <<>>
    /\ mode = "meetings"
    /\ sensitive = AllInsensitive
    /\ phase = "running"
    /\ loader = <<>>
    /\ op = NoOp

\* DiscussWrapper.get_transaction(meeting a, n, updateLast).
NavGet(n, upd) ==
    LET mtg == meetingcache["a"]
        g == get_transaction(entries, mtg, n, upd) IN
    /\ entries' = g.ents
    /\ op' = [name |-> "get_transaction", loc |-> "a", num |-> n,
              updateLast |-> upd, kind |-> g.kind, trn |-> g.trn,
              fetched |-> g.fetched]
    /\ UNCHANGED <<remote, rstatus, saved, connVars, uiVars>>

\* DiscussWrapper.find_next_valid_transaction(meeting a, backwards).
NavFindNextValid(backwards) ==
    LET mtg == meetingcache["a"]
        f == find_next_valid_transaction(entries, mtg, backwards) IN
    /\ entries' = f.ents
    /\ op' = [name |-> "find_next_valid_transaction", loc |-> "a",
              backwards |-> backwards,
              cursor |-> f.start_from,
              kind |-> f.kind, trn |-> f.trn,
              fetched |-> f.fetched, skipped |-> f.skipped]
    /\ UNCHANGED <<remote, rstatus, saved, connVars, uiVars>>

NavRemoteDelete(n) ==
    /\ RemoteDelete("a", n)
    /\ op' = NoOp
    /\ UNCHANGED <<rstatus, entries, saved, connVars, uiVars>>

NavRemotePost ==
    /\ RemotePost("a")
    /\ op' = NoOp
    /\ UNCHANGED <<rstatus, entries, saved, connVars, uiVars>>

NextNav ==
    \/ \E n \in 0..(MaxTrn + MaxPosts + 1), upd \in BOOLEAN : NavGet(n, upd)
    \/ \E b \in BOOLEAN : NavFindNextValid(b)
    \/ \E n \in 1..(MaxTrn + MaxPosts) : NavRemoteDelete(n)
    \/ NavRemotePost

SpecNav == InitNav /\ [][NextNav]_vars

\* ---------------------------------------------------------------- claims

FindOp == op.name = "find_next_valid_transaction"

\* The Meeting the last operation ran on, and the live numbers of that meeting
\* on the server (the record of an operation is dropped when the server moves).
OpMtg == meetingcache[op.loc]
OpLive == remote[op.loc].live

\* The numbers the walk of the last find_next_valid_transaction covers: from
\* one step past the cursor to the boundary, inclusive.
WalkRange ==
    IF op.backwards THEN {n \in OpMtg.first..OpMtg.last : n < op.cursor}
    ELSE {n \in OpMtg.first..OpMtg.last : n > op.cursor}

\* C1 (as amended): get_transaction raises the range error, without a remote
\* fetch, exactly for N < meeting.lowest or N > meeting.highest; every other
\* N, also one outside [first, last], is fetched.
C1_RangeIsLowestHighest ==
    op.name = "get_transaction" =>
        IF op.num < OpMtg.lowest \/ op.num > OpMtg.highest
        THEN op.kind = "ValueError" /\ op.fetched = <<>>
        ELSE op.kind # "ValueError" /\ op.fetched = <<op.num>>

\* C1 as stated: the range error, and no fetch, for every N < meeting.first
\* or N > meeting.last; a fetch of N otherwise.
C1_RangeIsFirstLast ==
    op.name = "get_transaction" =>
        IF op.num < OpMtg.first \/ op.num > OpMtg.last
        THEN op.kind = "ValueError" /\ op.fetched = <<>>
        ELSE op.fetched = <<op.num>>

\* C1's case: a number inside [lowest, highest] and outside [first, last] was
\* asked for and a fetch went out.
C1_Witness ==
    /\ op.name = "get_transaction"
    /\ op.num >= OpMtg.lowest /\ op.num <= OpMtg.highest
    /\ (op.num < OpMtg.first \/ op.num > OpMtg.last)
    /\ op.fetched = <<op.num>>
    /\ op.kind = "DELETED_TRN"

\* C2: with the cursor strictly inside the live range, find_next_valid
\* returns the nearest live transaction strictly past the cursor: forward the
\* smallest live n with cursor < n <= last, backward the largest live n with
\* first <= n < cursor; deleted and nonexistent numbers are skipped.
C2_NearestLive ==
    (FindOp /\ OpMtg.first < op.cursor /\ op.cursor < OpMtg.last) =>
        LET S == WalkRange \cap OpLive IN
        S # {} =>
            /\ op.kind = "ok"
            /\ op.trn.current = (IF op.backwards THEN Max(S) ELSE Min(S))
            /\ \A n \in WalkRange :
                   (IF op.backwards THEN n > op.trn.current ELSE n < op.trn.current)
                       => \E i \in 1..Len(op.skipped) : op.skipped[i] = n

\* C2's case: a forward walk from inside the live range that skipped a
\* deleted number and returned the live one behind it.
C2_Witness ==
    /\ FindOp /\ ~op.backwards
    /\ OpMtg.first < op.cursor /\ op.cursor < OpMtg.last
    /\ op.kind = "ok"
    /\ Len(op.skipped) >= 1
    /\ op.trn.current = op.cursor + 1 + Len(op.skipped)

\* C3: with the cursor at or beyond the boundary (forward: cursor >= last,
\* backward: cursor <= first), find_next_valid clamps to the boundary and
\* returns the boundary transaction or the nearest live one inside the range.
C3_ClampedToBoundary ==
    (FindOp /\ (IF op.backwards THEN op.cursor <= OpMtg.first
                                ELSE op.cursor >= OpMtg.last)) =>
        /\ op.kind = "ok"
        /\ op.trn.current \in OpMtg.first..OpMtg.last

\* C5: find_next_valid never returns a transaction numbered outside
\* [meeting.first, meeting.last], nor a number it skipped in the same walk.
C5_ResultInRangeNotSkipped ==
    (FindOp /\ op.kind = "ok") =>
        /\ op.trn.current >= OpMtg.first
        /\ op.trn.current <= OpMtg.last
        /\ \A i \in 1..Len(op.skipped) : op.skipped[i] # op.trn.current

\* C5's case: a backward walk that skipped a number and returned a transaction.
C5_Witness ==
    /\ FindOp /\ op.backwards
    /\ op.kind = "ok"
    /\ Len(op.skipped) >= 1
    /\ op.trn.current < op.cursor - 1

\* C6: when the walk is not empty and every number of it is deleted or
\* nonexistent, find_next_valid raises nothing and yields none-found.
C6_NoneFoundIsNoError ==
    (FindOp /\ (IF op.backwards THEN op.cursor > OpMtg.first
                                ELSE op.cursor < OpMtg.last)
            /\ \A n \in (IF op.backwards THEN OpMtg.first..(op.cursor - 1)
                                         ELSE (op.cursor + 1)..OpMtg.last) :
                   n \notin OpLive) =>
        op.kind = "None"

\* C4: change_meeting does not fail on a stale cursor: whatever the cursor
\* and the deletions, it ends without an uncaught error and the meeting
\* switched to is the current meeting.
C4_ChangeMeetingNeverFails ==
    (op.name = "change_meeting" /\ op.arg <= Len(meeting_liststore)) =>
        /\ op.exc = ""
        /\ current_meeting = meeting_liststore[op.arg].mtg

\* C7: for every cached Meeting that has a registry entry and every
\* transaction t of it, record_view(meeting, t) followed by
\* last_read(meeting) answers t.current.
C7_TouchThenLastRead ==
    \A m \in DOMAIN entries :
        meetingcache[m] # NoMtg =>
            \A n \in remote[m].live :
                last_read_transaction(
                    touch_meeting(entries, meetingcache[m], TrnOf(m, remote[m], n)),
                    meetingcache[m])
                  = [kind |-> "ok", val |-> n]

\* C8: every operation that newly displays a transaction T records the
\* view: afterwards last_read(current meeting) is T.current.
C8_DisplayRecordsView ==
    (op.name # "none" /\ op.displayed) =>
        last_read_transaction(entries, meetingcache[current_meeting])
          = [kind |-> "ok", val |-> current_transaction.current]

\* C9: at most one discuss.Client is ever constructed per host.
C9_OneClientPerHost == \A h \in Hosts : clients[h] <= 1

\* C10: a remote or transport error on one meeting never leaves a scan: the
\* scan attends every meeting not flagged deleted and ends without the error.
C10_ScanCatchesPerMeeting ==
    op.name \in {"startup", "update_meeting_list"} =>
        /\ ~IsRemoteError(op.exc)
        /\ \A m \in DOMAIN entries :
             ~entries[m].deleted => <<"update_meeting_list", m>> \in op.visited

\* The operations that scan the registry.
ScanOps == {"startup", "update_meeting_list", "configure_add_meeting_activate"}

\* C11: a scan never removes a registry entry, and every meeting it failed
\* to attend because of a timeout or a no-such-meeting error is flagged
\* deleted afterwards, in memory and in the saved file.
C11_AttendFailureQuarantines ==
    [][op'.name \in ScanOps =>
         /\ DOMAIN entries \subseteq DOMAIN entries'
         /\ \A m \in DOMAIN entries' :
              ( /\ \E scan \in {"check_meetings", "update_meeting_list"} :
                      <<scan, m>> \in op'.visited
                /\ meetingcache'[m] = NoMtg
                /\ rstatus'[m] \in {"timeout", "NO_SUCH_MTG"} )
              => entries'[m].deleted /\ m \in DOMAIN saved' /\ saved'[m].deleted]_vars

\* C12: for every cached Meeting whose server answers, recording a view of
\* the transaction numbered meeting.last makes meeting_has_changed answer
\* false when asked right afterwards.
C12_NoUnreadAfterViewingLast ==
    \A m \in DOMAIN entries :
        ( /\ meetingcache[m] # NoMtg
          /\ Answer(m) = "ok"
          /\ meetingcache[m].last \in remote[m].live )
        => LET mtg == meetingcache[m]
               t == TrnOf(m, remote[m], mtg.last)
               h == meeting_has_changed(
                        [Begin EXCEPT !.entries = touch_meeting(entries, mtg, t)], m)
           IN  h.kind = "ok" /\ ~h.val

\* The window loader has run on a window that held rows.
LoadOp == op.name = "load_more_transactions" /\ op.arg.held > 0

\* The row that was the oldest of the window when the loader began (rows are
\* only ever prepended).
OldestHeld == trans_liststore[Len(trans_liststore) - op.arg.held + 1]

\* The live transactions older than that row.
OlderLive == {n \in remote[current_meeting].live : n < OldestHeld.current}

\* The rows the loader prepended.
Prepended == Len(trans_liststore) - op.arg.held

\* C13: load_more_transactions(k) on a window that holds rows ends
\* without error and has prepended exactly min(k, m) rows, m the number of
\* live transactions older than the oldest row held.
C13_PrependsMinKM ==
    LoadOp => op.exc = "" /\ Prepended = Min({op.arg.num, Cardinality(OlderLive)})


\* C14: show_all_activate on a window that holds rows ends without error
\* with a first row whose prev is 0, after one fetch and one progress report
\* per prepended row, the reported remaining counts never increasing.
C14_ShowAllEndsAtStart ==
    (op.name = "show_all_activate" /\ op.arg.held > 0) =>
        /\ op.exc = ""
        /\ trans_liststore[1].prev = 0
        /\ Len(op.progress) = Prepended
        /\ \A i \in 1..(Len(op.progress) - 1) : op.progress[i + 1] <= op.progress[i]

\* C15: get_meeting of a cached location, by location or by any of its
\* names, answers the cached Meeting and changes nothing (no connection, no
\* probe, no load_info); and no operation loads the metadata of a location
\* again, or replaces its Meeting, once the location is cached.
C15_CachedMeetingIsReused ==
    /\ [](\A m \in DOMAIN entries :
            meetingcache[m] # NoMtg =>
                \A name \in {m, entries[m].names[1], entries[m].names[2]} :
                    get_meeting(Begin, name) = [s |-> Begin, kind |-> "ok", loc |-> m])
    /\ [][\A m \in Locs :
            (meetingcache[m] # NoMtg /\ op'.name # "none") =>
                /\ <<"load_info", m>> \notin op'.calls
                /\ meetingcache'[m] = meetingcache[m]]_vars

\* A scan has attended a meeting that was cached before.
C15_Witness ==
    /\ op.name = "update_meeting_list"
    /\ <<"update_meeting_list", "a">> \in op.visited
    /\ <<"update_meeting_list", "b">> \in op.visited
    /\ <<"load_info", "b">> \in op.calls
    /\ <<"load_info", "a">> \notin op.calls
    /\ meetingcache["a"] # NoMtg

\* get_meeting has run for a location that was not cached.
AttendOp == op.name = "get_meeting" /\ op.calls # {}

\* C16: get_meeting of an uncached location ends well, with the loaded
\* metadata cached, exactly when the probe of transaction 0 succeeds or
\* fails with NO_SUCH_TRN and load_info succeeds; any other failure of the
\* probe or of load_info is raised and the location stays uncached.  The
\* cache holds nothing but loaded metadata.
C16_ProbeAndLoadFailuresPropagate ==
    /\ AttendOp =>
         IF ExistenceProbe(op.arg) \notin {"ok", "NO_SUCH_TRN"}
         THEN op.exc = ExistenceProbe(op.arg) /\ meetingcache[op.arg] = NoMtg
         ELSE IF Answer(op.arg) # "ok"
         THEN op.exc = Answer(op.arg) /\ meetingcache[op.arg] = NoMtg
         ELSE op.exc = "" /\ meetingcache[op.arg] = LoadInfo(op.arg)
    /\ \A m \in Locs : meetingcache[m] \in {NoMtg, LoadInfo(m)}

\* The probe failed with NO_SUCH_TRN and the meeting was cached all the same.
C16_Witness ==
    /\ AttendOp
    /\ rstatus[op.arg] = "NO_SUCH_TRN"
    /\ meetingcache[op.arg] = LoadInfo(op.arg)
    /\ \E m \in Locs : rstatus[m] = "load_ProtocolError" /\ meetingcache[m] = NoMtg

\* C17: delete_meeting of a name that resolves to no entry raises ValueError
\* and leaves the entries and the saved file as they are; for a name that
\* resolves, the entry is gone from the entries and from the saved file, the
\* other entries are as before and the name resolves to nothing.  After the
\* delete handler the removed location is in neither and the name is unknown.
C17_DeleteRemovesOrRefuses ==
    /\ \A meeting \in DeleteNames :
         LET mtg == Lookup(entries, meeting)
             d == delete_meeting(Begin, meeting)
         IN  IF mtg = NoLoc
             THEN d.exc = "ValueError" /\ d.entries = entries /\ d.saved = saved
             ELSE /\ d.exc = ""
                  /\ DOMAIN d.entries = DOMAIN entries \ {mtg}
                  /\ \A l \in DOMAIN d.entries : d.entries[l] = entries[l]
                  /\ d.saved = d.entries
                  /\ Lookup(d.entries, meeting) = NoLoc
    /\ (op.name = "configure_delete_meeting_activate" /\ op.arg.mtg # NoLoc) =>
         /\ op.arg.mtg \notin DOMAIN entries
         /\ op.arg.mtg \notin DOMAIN saved
         /\ Lookup(entries, op.arg.meeting) = NoLoc

\* Meeting b has been deleted by one of its names while a stays.
C17_Witness ==
    /\ op.name = "configure_delete_meeting_activate"
    /\ op.arg.mtg = "b"
    /\ "b" \notin DOMAIN saved
    /\ "a" \in DOMAIN entries

\* C18: touch sets last_transaction unconditionally and touches one entry
\* only: recording the view of any transaction of a registered meeting, lower
\* than the cursor or not, makes that number the meeting's cursor and leaves
\* every other entry as it was; the Previous button that displays the
\* transaction before the current one moves the cursor of the current meeting
\* to that lower number and the cursor of no other meeting.
C18_TouchIsUnconditional ==
    /\ [](\A m \in DOMAIN entries :
            meetingcache[m] # NoMtg =>
                \A n \in remote[m].live :
                    touch_meeting(entries, meetingcache[m], TrnOf(m, remote[m], n))
                      = [entries EXCEPT ![m].last_transaction = n])
    /\ [][(op'.name = "pointer_clicked" /\ op'.arg = "prev"
             /\ op'.touched # NoTouch) =>
            /\ op'.touched = [loc |-> current_meeting,
                              num |-> current_transaction.prev]
            /\ current_transaction.prev < current_transaction.current
            /\ entries' = [entries EXCEPT ![current_meeting].last_transaction =
                                              current_transaction.prev]]_vars

\* The Previous button has moved the cursor of a below the number the
\* registry file was loaded with, and b's cursor is where it was.
C18_Witness ==
    /\ op.name = "pointer_clicked" /\ op.arg = "prev"
    /\ op.touched.loc = "a"
    /\ op.touched.num < saved["a"].last_transaction
    /\ entries["a"].last_transaction = op.touched.num
    /\ entries["b"].last_transaction = saved["b"].last_transaction

\* The numbers a user may type into the goto dialog.
GotoNumbers == 0..(MaxTrn + MaxPosts + 1)

\* C19: a failed get changes no state: whenever fetching a number of the
\* current meeting fails with a range error or a deleted or nonexistent
\* transaction, get_transaction hands back the registry as it was and
\* display_transaction ends without an error, with the same current
\* transaction, registry and window; the goto-number handler run with such a
\* number leaves the whole client state as it was.
C19_FailedGetChangesNothing ==
    /\ [](\A n \in GotoNumbers :
            (current_meeting # NoLoc /\ meetingcache[current_meeting] # NoMtg) =>
                LET g == get_transaction(entries, meetingcache[current_meeting],
                                         n, TRUE)
                    d == display_transaction_num(Begin, n)
                IN  g.kind # "ok" =>
                        /\ g.kind \in {"ValueError", "DELETED_TRN", "NO_SUCH_TRN"}
                        /\ g.ents = entries
                        /\ d.exc = ""
                        /\ [d EXCEPT !.calls = {}] = Begin)
    /\ [][(/\ op'.name = "goto_number_activate"
           /\ get_transaction(entries, meetingcache[current_meeting],
                              op'.arg, TRUE).kind # "ok") =>
            UNCHANGED <<entries, saved, connVars, uiVars>>]_vars

\* The user, reading transaction 4 of meeting a, has asked for the deleted
\* transaction 3: the dialog came, the cursor and the current transaction
\* are still 4.
C19_Witness ==
    /\ op.name = "goto_number_activate" /\ op.arg = MaxTrn - 1
    /\ op.touched = NoTouch
    /\ op.calls = {<<"get_transaction", "a">>}
    /\ current_meeting = "a"
    /\ (MaxTrn - 1) \notin remote["a"].live
    /\ current_transaction.current = MaxTrn
    /\ entries["a"].last_transaction = MaxTrn

\* C20: loading history records no view: load_more_transactions, for every
\* count, and show_all_activate leave the registry (every entry's
\* last_transaction), the saved file and the current transaction as they
\* were, whether the loading ends normally or with an error, and so does
\* every step of the two handlers.
C20_LoadingRecordsNoView ==
    /\ [](\A k \in 0..Back :
            LET l == load_more_transactions(Begin, k)
                a == show_all_activate(Begin)
            IN  /\ l.entries = entries /\ l.saved = saved
                /\ l.current_transaction = current_transaction
                /\ l.touched = NoTouch
                /\ a.entries = entries /\ a.saved = saved
                /\ a.current_transaction = current_transaction
                /\ a.touched = NoTouch)
    /\ [][op'.name \in {"load_more_transactions", "show_all_activate"} =>
            UNCHANGED <<entries, saved, current_meeting, current_transaction>>]_vars

\* Show All has prepended two transactions or more below the one on
\* display, and the cursor of the meeting is still the transaction on display.
C20_Witness ==
    /\ op.name = "show_all_activate" /\ op.exc = ""
    /\ op.arg.held > 0
    /\ Len(trans_liststore) - op.arg.held >= 2
    /\ trans_liststore[1].current < current_transaction.current
    /\ entries[current_meeting].last_transaction = current_transaction.current

PointerOf(field) ==
    CASE field = "next" -> current_transaction.next
      [] field = "prev" -> current_transaction.prev
      [] field = "nref" -> current_transaction.nref
      [] OTHER -> current_transaction.pref

\* C22: navigation through a zero pointer is a no-op: whenever the current
\* transaction has a zero next, prev, nref or pref, the handler of that
\* button makes no remote call, ends without an error and leaves the client
\* state (current transaction, registry, window) as it was; so does every
\* click of such a button.
C22_ZeroPointerIsNoOp ==
    /\ [](\A field \in {"next", "prev", "nref", "pref"} :
            (current_transaction # NoTrn /\ PointerOf(field) = 0) =>
                pointer_clicked(Begin, field) = Begin)
    /\ [][(/\ op'.name = "pointer_clicked"
           /\ current_transaction # NoTrn
           /\ PointerOf(op'.arg) = 0) =>
            /\ op'.calls = {} /\ op'.exc = "" /\ op'.touched = NoTouch
            /\ UNCHANGED <<entries, saved, connVars, uiVars>>]_vars

\* Next has been clicked on the last transaction of meeting a: nothing was
\* fetched, the cursor is still on it.
C22_Witness ==
    /\ op.name = "pointer_clicked" /\ op.arg = "next"
    /\ op.calls = {} /\ op.exc = ""
    /\ current_meeting = "a"
    /\ current_transaction.current = MaxTrn /\ current_transaction.next = 0
    /\ current_transaction.pref # 0
    /\ current_transaction.nref = 0
    /\ entries["a"].last_transaction = MaxTrn

\* C23: after a successful post the cached Meeting is reloaded in place:
\* the cache entry of the current meeting, which is the object the current
\* meeting refers to, holds the metadata the server has after the post, its
\* last and highest are at least the number of the posted transaction, and
\* no other cache entry is replaced.
C23_PostReloadsMeetingInPlace ==
    /\ \A rep \in BOOLEAN :
         (current_meeting # NoLoc /\ current_transaction # NoTrn
            /\ Answer(current_meeting) = "ok") =>
             LET p == post_reply(Begin, rep)
                 new == remote[current_meeting].highest + 1 IN
             /\ p.r.highest = new /\ new \in p.r.live
             /\ p.s.current_meeting = current_meeting
             /\ p.s.meetingcache[current_meeting] = MetaOf(current_meeting, p.r)
             /\ p.s.meetingcache[current_meeting].last >= new
             /\ \A l \in Locs \ {current_meeting} :
                  p.s.meetingcache[l] = meetingcache[l]
    /\ (op.name = "post_reply" /\ <<"post", current_meeting>> \in op.calls
          /\ ~IsRemoteError(op.exc)) =>
           /\ <<"load_info", current_meeting>> \in op.calls
           /\ meetingcache[current_meeting] = LoadInfo(current_meeting)
           /\ meetingcache[current_meeting].last >= remote[current_meeting].highest
           /\ meetingcache[current_meeting].first
                 <= meetingcache[current_meeting].last

\* A reply has been posted to meeting a: the cached Meeting, which had
\* last = MaxTrn, now has the number of the new transaction as its last.
C23_Witness ==
    /\ op.name = "post_reply" /\ op.arg = TRUE /\ op.exc = ""
    /\ current_meeting = "a"
    /\ remote["a"].highest = MaxTrn + 1
    /\ meetingcache["a"].last = MaxTrn + 1
    /\ current_transaction.current = MaxTrn + 1

\* C24: the unread marker is never stale across a mutation of the cursor:
\* after every operation that recorded a view in the current meeting, the
\* row of that meeting in the meeting list is bold exactly when the meeting
\* has something newer than the new cursor.
C24_UnreadMarkerFresh ==
    (/\ op.name # "none"
     /\ current_meeting # NoLoc
     /\ op.touched.loc = current_meeting
     /\ current_meeting \in DOMAIN entries
     /\ Answer(current_meeting) = "ok") =>
        \A i \in 1..Len(meeting_liststore) :
            meeting_liststore[i].mtg = current_meeting =>
                meeting_liststore[i].bold
                  = CheckUpdate(current_meeting,
                                entries[current_meeting].last_transaction)

\* The handlers that call rcfile.save().
SaveOps == {"startup", "configure_add_meeting_activate",
            "configure_delete_meeting_activate", "quit"}

\* The handlers that display a transaction and nothing else.
ViewOps == {"pointer_clicked", "change_meeting", "select_transaction",
            "goto_activate", "goto_number_activate"}

\* C25: touch does not persist: a handler that records a view leaves the
\* saved file as it was, so the file keeps the previous last_transaction
\* until a save; the file changes only in a handler that saves (add, delete,
\* the scan at startup, quit).
C25_TouchDoesNotPersist ==
    /\ [](\A f \in {"next", "prev"} : pointer_clicked(Begin, f).saved = saved)
    /\ [][/\ op'.name \in ViewOps => saved' = saved
          /\ saved' # saved => op'.name \in SaveOps]_vars

\* Next has moved the cursor of a off the number the file holds, and the
\* file still holds that number.
C25_Witness ==
    /\ op.name = "pointer_clicked"
    /\ op.touched.loc = "a"
    /\ entries["a"].last_transaction = op.touched.num
    /\ saved["a"].last_transaction # op.touched.num

\* C26: quitting saves the registry: after quit, by the button or by the
\* confirmed close of the window, the main loop is stopped and the saved
\* file holds every entry as it is in memory, the last_transaction of every
\* meeting included.
C26_QuitSaves ==
    /\ quit(Begin).saved = entries
    /\ phase = "quit" =>
         /\ op.name = "quit"
         /\ DOMAIN saved = DOMAIN entries
         /\ \A m \in DOMAIN entries :
              saved[m].last_transaction = entries[m].last_transaction

\* The user has read meeting a up to its last transaction and closed the
\* window: the file, loaded with cursor 1, holds MaxTrn.
C26_Witness ==
    /\ phase = "quit"
    /\ op.name = "quit" /\ op.arg = "delete_event"
    /\ "a" \in DOMAIN entries
    /\ entries["a"].last_transaction = MaxTrn
    /\ saved["a"].last_transaction = MaxTrn

\* C27: whenever there is a current transaction it is a transaction of the
\* current meeting, also after a switch whose cursor lookup and fallback
\* both failed.
C27_TransactionOfCurrentMeeting ==
    current_transaction # NoTrn => current_transaction.meeting = current_meeting

\* C28: for every cursor value find_next_valid never ends with the range
\* error: no number it probes is rejected as out of range.
C28_WalkNeverRangeError ==
    FindOp => op.kind # "ValueError"

\* C29: when find_next_valid returns a transaction the registry cursor of
\* the meeting is that transaction's number on return; when it returns
\* none-found the cursor is what it was.
C29_WalkMovesCursorOnReturn ==
    FindOp =>
        /\ op.kind = "ok" => entries[op.loc].last_transaction = op.trn.current
        /\ op.kind = "None" => entries[op.loc].last_transaction = op.cursor

\* A forward walk has skipped a number and returned a transaction two or
\* more past the old cursor, which is the cursor now.
C29_Witness ==
    /\ FindOp /\ ~op.backwards
    /\ op.kind = "ok"
    /\ Len(op.skipped) >= 1
    /\ op.trn.current > op.cursor + 1
    /\ entries[op.loc].last_transaction = op.trn.current

\* The transaction numbers of the window rows are strictly increasing and
\* each row's prev pointer is the number of the row before it.
WindowIsSlice ==
    \A i \in 2..Len(trans_liststore) :
        /\ trans_liststore[i - 1].current < trans_liststore[i].current
        /\ trans_liststore[i].prev = trans_liststore[i - 1].current

\* C30: the transaction window is always a contiguous ascending slice of
\* the live sequence: after any window fills and loads of older rows its
\* numbers are strictly increasing, without duplicates, and each row's prev
\* pointer is the number of the row before it.
C30_WindowIsAscendingSlice == WindowIsSlice

\* C31: the window only ever holds transactions of the current meeting,
\* also when a meeting switch is processed between two fetches of a loader:
\* every row is a transaction of the current meeting, and a loader never
\* fetches from a meeting with the prev pointer of a transaction of another
\* meeting.
C31_WindowOfCurrentMeeting ==
    /\ \A i \in 1..Len(trans_liststore) :
         trans_liststore[i].meeting = current_meeting
    /\ \A i \in 1..Len(loader) :
         loader[i].pc = "wait" => loader[i].trn.meeting = loader[i].mtg

\* C33: the meeting cache only holds locations that are present in the
\* registry: every location with a cached Meeting has a registry entry.
C33_CacheWithinRegistry ==
    \A l \in Locs : meetingcache[l] # NoMtg => l \in DOMAIN entries

\* C32: touch and last_read are only ever invoked for a meeting that has an
\* entry in the registry: the location an operation touched has an entry, and
\* no operation reads the cursor of a meeting the registry does not resolve
\* (which is what raises KeyError).
C32_CursorOfRegisteredMeeting ==
    op.name # "none" =>
        /\ op.touched # NoTouch => op.touched.loc \in DOMAIN entries
        /\ op.exc # "KeyError" /\ op.nested # "KeyError"

\* The entries of the registry flagged deleted.
Flagged(ents) == {m \in DOMAIN ents : ents[m].deleted}

\* C34: a meeting whose registry entry is flagged deleted is never contacted
\* by the startup scan or a refresh of the meeting list and never appears in
\* the meeting list, and the flag is never cleared: no row of the list is a
\* flagged meeting; a scan that flagged a meeting does not attend it again
\* when it fills the list; an operation that starts with a meeting flagged
\* leaves the flag set while the entry exists, attends the meeting in no scan
\* and issues no probe, metadata load or fetch for it.
C34_DeletedNeverContacted ==
    /\ [](/\ \A i \in 1..Len(meeting_liststore) :
               meeting_liststore[i].mtg \notin Flagged(entries)
          /\ op.name = "startup" =>
                \A m \in Flagged(entries) :
                    <<"update_meeting_list", m>> \notin op.visited)
    /\ [][\A m \in Flagged(entries) :
            /\ m \in DOMAIN entries' => entries'[m].deleted
            /\ op'.name # "none" =>
                  /\ \A v \in op'.visited : v[2] # m
                  /\ \A c \in op'.calls : c[2] = m => c[1] = "add"]_vars

\* The list has been refreshed while the server of a flagged meeting answers
\* again: the meeting stays flagged and out of the list.
C34_Witness ==
    /\ op.name = "update_meeting_list"
    /\ "b" \in Flagged(entries)
    /\ rstatus["b"] = "ok"
    /\ Len(meeting_liststore) > 0
    /\ op.visited # {}

====
